---- MODULE Spec2Model ----
(***************************************************************************)
(* toktab: a command-line client that looks up or searches LLM pricing     *)
(* records over HTTP and prints them as raw JSON or as tables.             *)
(*                                                                         *)
(* Conventions of the model                                                *)
(*   - A Python str is a Text: a sequence of tokens.  Data that comes from *)
(*     the user or the server is split into one-character tokens; literal  *)
(*     parts of the program's f-strings are single tokens.                 *)
(*   - Python's None is the empty tuple <<>>, a present value v is <<v>>.  *)
(*   - An exception is a record [type, message, status_code]; a function   *)
(*     that may raise returns [raised |-> <<>> or <<exc>>, value |-> ...]. *)
(***************************************************************************)
EXTENDS Integers, Sequences, FiniteSets, TLC

VARIABLES
    argv,            \* the command line of this invocation
    pc,              \* where the invocation stands
    requests,        \* the httpx.get calls issued so far, in order
    response,        \* <<>> until httpx.get returned or raised, then its outcome
    client_result,   \* <<>> until get_model or search returned or raised
    stdout,          \* what was printed on standard output, in order
    stderr,          \* what was printed on standard error, in order
    exit_code,       \* <<>> while running, <<n>> once the process ended
    fn_arg,          \* arguments of the display.py function called on its own
    fn_ret,          \* <<>> until that function returned, then <<what it returned>>
    fn_raised        \* <<>> unless that function raised, then <<the exception>>

vars == <<argv, pc, requests, response, client_result, stdout, stderr, exit_code,
          fn_arg, fn_ret, fn_raised>>

None == <<>>
Some(v) == <<v>>

-----------------------------------------------------------------------------
(* Bounds of the model *)

\* search --limit is drawn from -LimitSlack .. MAX_LIMIT + LimitSlack
LimitSlack == 2
\* texts sent by the server have at most this many characters
MaxTextLen == 3
MaxTokens == 2100
MaxCostDigits == 600
MinCostExp == 3
MaxCostExp == 10

-----------------------------------------------------------------------------
(* Program constants *)

BASE_URL == "https://toktab.com/api"
MAX_LIMIT == 50
DEFAULT_LIMIT == 20

-----------------------------------------------------------------------------
(* Small helpers *)

Min(S) == CHOOSE x \in S : \A y \in S : x <= y
Max(S) == CHOOSE x \in S : \A y \in S : x >= y
Front(s) == SubSeq(s, 1, Len(s) - 1)
Last(s) == s[Len(s)]

\* The characters user and server data are made of.  "a" and "/" can start a
\* Rich markup tag, "1" cannot.
Alphabet == {"a", "1", "/", "[", "]"}
TextsUpTo(n) == UNION {[1..k -> Alphabet] : k \in 0..n}

-----------------------------------------------------------------------------
(* Exceptions: the classes of api.py and the httpx classes it catches *)

Bases ==
    [ ModelNotFoundError |-> "TokTabError",
      APIError           |-> "TokTabError",
      TokTabError        |-> "Exception",
      ConnectTimeout     |-> "TimeoutException",
      ReadTimeout        |-> "TimeoutException",
      TimeoutException   |-> "TransportError",
      ConnectError       |-> "NetworkError",
      ReadError          |-> "NetworkError",
      NetworkError       |-> "TransportError",
      TransportError     |-> "RequestError",
      TooManyRedirects   |-> "RequestError",
      RequestError       |-> "HTTPError",
      HTTPStatusError    |-> "HTTPError",
      HTTPError          |-> "Exception",
      JSONDecodeError    |-> "Exception",
      MarkupError        |-> "Exception" ]

RECURSIVE IsSubclass(_, _)
IsSubclass(cls, base) ==
    \/ cls = base
    \/ cls \in DOMAIN Bases /\ IsSubclass(Bases[cls], base)

Exc(type, message, status) ==
    [type |-> type, message |-> message, status_code |-> status]
Raise(e) == [raised |-> Some(e), value |-> None]
Return(v) == [raised |-> None, value |-> Some(v)]

\* Index of the first except clause that catches an exception of class cls,
\* 0 when none does (the exception propagates).
FirstExcept(cls, clauses) ==
    LET hit == {i \in 1..Len(clauses) : IsSubclass(cls, clauses[i])}
    IN IF hit = {} THEN 0 ELSE Min(hit)

-----------------------------------------------------------------------------
(* Decimal text of numbers *)

\* the decimal digits of a natural number below 2^31
NatDigits(n) ==
    LET len == 1 + Cardinality({k \in 1..9 : 10^k <= n})
    IN [i \in 1..len |-> ToString((n \div 10^(len - i)) % 10)]

\* str(n) for an int n, one token per character
IntStr(n) == IF n < 0 THEN <<"-">> \o NatDigits(0 - n) ELSE NatDigits(n)

\* str.rstrip(ch) for a one-character ch
RStrip(s, ch) ==
    LET keep == {i \in 1..Len(s) : s[i] # ch}
    IN IF keep = {} THEN <<>> ELSE SubSeq(s, 1, Max(keep))

ZeroPad(s, width) == [i \in 1..(width - Len(s)) |-> "0"] \o s

\* The digits of a natural number given as decimal digits, with a point
\* before the last d of them: what "{x:.<d>f}" prints for x = digits / 10^d.
PointBefore(digits, d) ==
    LET s == ZeroPad(digits, d + 1)
    IN SubSeq(s, 1, Len(s) - d) \o <<".">> \o SubSeq(s, Len(s) - d + 1, Len(s))

-----------------------------------------------------------------------------
(* format_tokens: display.py 38-59                                         *)
(*                                                                         *)
(* value = tokens / scale is a Python float: the double nearest to the     *)
(* quotient.  "{value:.1f}" rounds that double correctly to one decimal,   *)
(* so it differs from rounding the exact quotient only when the quotient   *)
(* lies exactly between two tenths; then the side the double fell on       *)
(* decides, or round-half-even when the double is exact.                   *)

\* floor(log2(n / scale)) for n >= scale
Log2Floor(n, scale) == Max({k \in 0..30 : n \div 2^k >= scale})

\* (r * 2^e) % m for m <= 10^6, ten doublings at a time
RECURSIVE ModShift(_, _, _)
ModShift(r, e, m) ==
    IF e = 0 THEN r % m
    ELSE IF e >= 10 THEN ModShift(((r % m) * 1024) % m, e - 10, m)
    ELSE ((r % m) * 2^e) % m

\* Sign of float(n / scale) - n / scale: -1, 0 or 1.  The 53-bit significand
\* is n * 2^(52-k) / scale rounded to nearest; the remainder of that division
\* tells which way it was rounded.
DivisionError(n, scale) ==
    LET k == Log2Floor(n, scale)
        rem == ModShift(n, 52 - k, scale)
    IN IF rem = 0 THEN 0 ELSE IF 2 * rem < scale THEN 0 - 1 ELSE 1

\* round(float(n / scale) * 10) as "{:.1f}" rounds it
Tenths(n, scale) ==
    LET unit == scale \div 10
        q == n \div unit
        r == n % unit
        err == DivisionError(n, scale)
    IN IF 2 * r < unit THEN q
       ELSE IF 2 * r > unit THEN q + 1
       ELSE IF err < 0 THEN q
       ELSE IF err > 0 THEN q + 1
       ELSE IF q % 2 = 0 THEN q ELSE q + 1

\* f"{tokens / scale:.1f}"
OneDecimal(n, scale) == PointBefore(NatDigits(Tenths(n, scale)), 1)

\* format_tokens.  The two rstrip calls act on the text that already ends in
\* the unit letter, as in the source.
FormatTokens(tokens) ==
    IF tokens = None THEN <<"-">>
    ELSE LET n == tokens[1] IN
        IF n >= 1000000 THEN
            IF n % 1000000 = 0 THEN IntStr(n \div 1000000) \o <<"M">>
            ELSE RStrip(RStrip(OneDecimal(n, 1000000) \o <<"M">>, "0"), ".")
        ELSE IF n >= 1000 THEN
            IF n % 1000 = 0 THEN IntStr(n \div 1000) \o <<"K">>
            ELSE RStrip(RStrip(OneDecimal(n, 1000) \o <<"K">>, "0"), ".")
        ELSE IntStr(n)

-----------------------------------------------------------------------------
(* Python floats                                                           *)
(*                                                                         *)
(* format_cost multiplies a float and formats the product, so its output   *)
(* depends on IEEE-754 double rounding.  A positive double is modelled     *)
(* exactly as [m, s]: the value m * 2^(-s) with a 53-bit significand m.    *)
(* Significands exceed the integers of TLC, so they are naturals in        *)
(* base 2^15, least significant limb first, without leading zero limbs.    *)

LimbBits == 15
LimbBase == 2^LimbBits

RECURSIVE BigFromInt(_)
BigFromInt(n) == IF n = 0 THEN <<>> ELSE <<n % LimbBase>> \o BigFromInt(n \div LimbBase)

\* without leading zero limbs
BigNorm(a) == RStrip(a, 0)

\* a * k + carry from limb i on, for k < 2^15
RECURSIVE MulCarry(_, _, _, _)
MulCarry(a, k, i, carry) ==
    IF i > Len(a) THEN BigFromInt(carry)
    ELSE LET t == a[i] * k + carry
         IN <<t % LimbBase>> \o MulCarry(a, k, i + 1, t \div LimbBase)

BigMulSmall(a, k) == IF a = <<>> THEN <<>> ELSE BigNorm(MulCarry(a, k, 1, 0))
BigInc(a) == MulCarry(a, 1, 1, 1)

Reverse(s) == [i \in 1..Len(s) |-> s[Len(s) + 1 - i]]

\* Long division of limbs i..1 of a by d < 2^15, the limbs above having left
\* rem: the quotient's limbs, most significant first, and then the remainder.
RECURSIVE DivCarry(_, _, _, _)
DivCarry(a, d, i, rem) ==
    IF i = 0 THEN <<rem>>
    ELSE LET cur == rem * LimbBase + a[i]
         IN <<cur \div d>> \o DivCarry(a, d, i - 1, cur % d)

\* [q |-> a div d, r |-> a mod d]
QuotRem(x) == [q |-> BigNorm(Reverse(Front(x))), r |-> Last(x)]
BigDivSmall(a, d) ==
    IF a = <<>> THEN [q |-> <<>>, r |-> 0] ELSE QuotRem(DivCarry(a, d, Len(a), 0))

\* number of bits of a limb
BitLen(n) == Cardinality({k \in 0..(LimbBits - 1) : 2^k <= n})

BigBitLen(a) == IF a = <<>> THEN 0 ELSE LimbBits * (Len(a) - 1) + BitLen(Last(a))
BigIsOdd(a) == a # <<>> /\ a[1] % 2 = 1

\* a * 2^n
BigShiftLeft(a, n) ==
    IF a = <<>> THEN <<>>
    ELSE [i \in 1..(n \div LimbBits) |-> 0] \o BigMulSmall(a, 2^(n % LimbBits))

\* [q |-> a div 2^n, sticky |-> a mod 2^n # 0]
Sticky(x, dropped) == [q |-> x.q, sticky |-> x.r # 0 \/ dropped]
BigShiftRight(a, n) ==
    IF a = <<>> THEN [q |-> <<>>, sticky |-> FALSE]
    ELSE LET drop == Min({n \div LimbBits, Len(a)})
         IN Sticky(BigDivSmall(SubSeq(a, drop + 1, Len(a)), 2^(n % LimbBits)),
                   \E i \in 1..drop : a[i] # 0)

\* a < b
BigLess(a, b) ==
    \/ Len(a) < Len(b)
    \/ /\ Len(a) = Len(b)
       /\ \E i \in 1..Len(a) :
            /\ a[i] < b[i]
            /\ \A j \in (i + 1)..Len(a) : a[j] = b[j]

\* a as decimal digits, four digits at a time
RECURSIVE BigDigits(_)
BigDigits(a) ==
    LET Digits(x) == IF x.q = <<>> THEN NatDigits(x.r)
                     ELSE BigDigits(x.q) \o ZeroPad(NatDigits(x.r), 4)
    IN Digits(BigDivSmall(a, 10000))

\* [q |-> floor(x / 2), up |-> whether round-half-even rounds x / 2 up],
\* where sticky says that the exact value lies above x
HalfEven(x, sticky) ==
    LET Rounded(h) == IF h.r = 1 /\ (sticky \/ BigIsOdd(h.q)) THEN BigInc(h.q) ELSE h.q
    IN Rounded(BigDivSmall(x, 2))

\* The double nearest to n * 2^(-s), ties to even; sticky says that the exact
\* value lies above n * 2^(-s), by less than one unit of n (callers pass a
\* sticky n only with 54 bits or more).
RoundToDouble(n, sticky, s) ==
    LET Rounded(sh) == HalfEven(sh.q, sticky \/ sh.sticky)
        Normal(m, e) == IF BigBitLen(m) = 54
                        THEN [m |-> BigDivSmall(m, 2).q, s |-> e - 1]
                        ELSE [m |-> m, s |-> e]
        Round(len) == IF len < 54
                      THEN [m |-> BigShiftLeft(n, 53 - len), s |-> s + (53 - len)]
                      ELSE Normal(Rounded(BigShiftRight(n, len - 54)), s - (len - 53))
    IN Round(BigBitLen(n))

\* n / 5^e, rounded down, and whether anything was cut off; six factors at a
\* time (5^6 < 2^15)
RECURSIVE DivPow5(_, _, _)
DivPow5(n, e, sticky) ==
    IF e = 0 THEN [q |-> n, sticky |-> sticky]
    ELSE LET k == Min({e, 6})
             Rest(x) == DivPow5(x.q, e - k, sticky \/ x.r # 0)
         IN Rest(BigDivSmall(n, 5^k))

\* float("<digits>e-<exp>") for digits > 0: the decimal number digits / 10^exp
\* as a double (what json gives for a number of the response)
ParseDecimal(digits, exp) ==
    LET shift == 60 + 3 * exp    \* leaves a quotient of 60 bits or more
        Round(x) == RoundToDouble(x.q, x.sticky, shift + exp)
    IN Round(DivPow5(BigShiftLeft(BigFromInt(digits), shift), exp, FALSE))

\* x * 1000000 (the factor is an exact double): 10^6 = 5^6 * 2^6
TimesMillion(x) == RoundToDouble(BigMulSmall(x.m, 5^6), FALSE, x.s - 6)

\* x < y for positive doubles
DoubleLess(x, y) == x.s > y.s \/ (x.s = y.s /\ BigLess(x.m, y.m))

\* f"{x:.<d>f}" for a positive double x: x * 10^d rounded half-even to an
\* integer, printed with a point before its last d digits
\* (FixedRoundingDown cuts the digits off instead: a faulty variant the
\* formatting property must tell from Fixed)
FixedRoundingDown(x, d) ==
    LET Units(n) == IF x.s >= 1 THEN BigShiftRight(n, x.s).q
                    ELSE BigShiftLeft(n, 0 - x.s)
    IN PointBefore(BigDigits(Units(BigMulSmall(x.m, 10^d))), d)
Fixed(x, d) ==
    LET Rounded(sh) == HalfEven(sh.q, sh.sticky)
        Units(n) == IF x.s >= 1 THEN Rounded(BigShiftRight(n, x.s - 1))
                    ELSE BigShiftLeft(n, 0 - x.s)
    IN PointBefore(BigDigits(Units(BigMulSmall(x.m, 10^d))), d)

-----------------------------------------------------------------------------
(* format_cost: display.py 14-35                                           *)
(* A cost is None or <<[digits, exp]>>: the number digits * 10^(-exp) as   *)
(* the response spells it (0.0000025 is [digits |-> 25, exp |-> 7]).       *)

Dec(digits, exp) == [digits |-> digits, exp |-> exp]

FormatCost(cost_per_token) ==
    LET Price(cost_per_million) ==
            IF DoubleLess(cost_per_million, ParseDecimal(1, 2))
            THEN <<"$">> \o Fixed(cost_per_million, 4)
            ELSE IF DoubleLess(cost_per_million, ParseDecimal(1, 0))
            THEN <<"$">> \o RStrip(RStrip(Fixed(cost_per_million, 2), "0"), ".")
            ELSE <<"$">> \o Fixed(cost_per_million, 2)
    IN IF cost_per_token = None THEN <<"-">>
       ELSE IF cost_per_token[1].digits = 0 THEN <<"Free">>
       ELSE Price(TimesMillion(ParseDecimal(cost_per_token[1].digits,
                                            cost_per_token[1].exp)))

\* get_cost_style: display.py 62-79
GetCostStyle(cost_per_token) ==
    LET Style(cost_per_million) ==
            IF DoubleLess(cost_per_million, ParseDecimal(1, 0)) THEN "green"
            ELSE IF DoubleLess(cost_per_million, ParseDecimal(10, 0)) THEN "yellow"
            ELSE "red"
    IN IF cost_per_token = None \/ cost_per_token[1].digits = 0 THEN "green"
       ELSE Style(TimesMillion(ParseDecimal(cost_per_token[1].digits,
                                            cost_per_token[1].exp)))

-----------------------------------------------------------------------------
(* rich: Console.print(str) renders console markup before it writes.  A    *)
(* "[" followed by one of a-z # / @ opens a tag that runs to the next "]"  *)
(* unless another "[" comes first; the tag is removed from the text.  A    *)
(* closing tag "[/name]" must match an open tag, "[/]" any open tag, or    *)
(* the print raises MarkupError.  (Tag styles do not change the text.)     *)

\* tokens whose first character is one of a-z # / @
TagStartTokens == {"a", "/", "red", "yellow", "dim", "bold", "green"}

\* Position of the "]" that ends the tag starting at s[i], 0 if none starts
TagEnd(s, i) ==
    IF s[i] = "[" /\ i < Len(s) /\ s[i + 1] \in TagStartTokens
    THEN LET brackets == {k \in (i + 1)..Len(s) : s[k] \in {"[", "]"}}
         IN IF brackets # {} /\ s[Min(brackets)] = "]" THEN Min(brackets) ELSE 0
    ELSE 0

\* Index of the innermost open tag called name, 0 if none
OpenTag(stack, name) ==
    LET hit == {k \in 1..Len(stack) : stack[k] = name}
    IN IF hit = {} THEN 0 ELSE Max(hit)

Without(stack, k) == SubSeq(stack, 1, k - 1) \o SubSeq(stack, k + 1, Len(stack))

\* rich.markup.render from position i on, with the open tags in stack and the
\* plain text so far in out
RECURSIVE Markup(_, _, _, _)
Markup(s, i, stack, out) ==
    IF i > Len(s) THEN Return(out)
    ELSE IF TagEnd(s, i) = 0 THEN Markup(s, i + 1, stack, Append(out, s[i]))
    ELSE LET j == TagEnd(s, i)
             tag == SubSeq(s, i + 1, j - 1)
             name == Tail(tag)
             k == IF name = <<>> THEN Len(stack) ELSE OpenTag(stack, name)
         IN IF tag[1] # "/" THEN Markup(s, j + 1, Append(stack, tag), out)
            ELSE IF k = 0 THEN Raise(Exc("MarkupError", <<>>, 0))
            ELSE Markup(s, j + 1, Without(stack, k), out)

RenderMarkup(markup) == Markup(markup, 1, <<>>, <<>>)

\* One entry of what was printed: the print statement it came from and what
\* it wrote (text for a string, rows for a table).  Blank lines are left out.
Entry(kind, text, rows) == [kind |-> kind, text |-> text, rows |-> rows]

\* console.print(markup): a string, rendered as markup
PrintMarkup(kind, markup) == [markup |-> TRUE, entry |-> Entry(kind, markup, <<>>)]
\* console.print(renderable): a Text, Panel or Table whose cells are Texts
PrintRenderable(entry) == [markup |-> FALSE, entry |-> entry]

\* The console.print calls of a display function, in order: what they
\* printed, and the exception that ended them if one did
RECURSIVE ConsolePrint(_)
ConsolePrint(calls) ==
    IF calls = <<>> THEN [raised |-> None, printed |-> <<>>]
    ELSE LET call == calls[1]
             r == IF call.markup THEN RenderMarkup(call.entry.text)
                  ELSE Return(call.entry.text)
             rest == ConsolePrint(Tail(calls))
         IN IF r.raised # None THEN [raised |-> r.raised, printed |-> <<>>]
            ELSE [raised |-> rest.raised,
                  printed |-> <<[call.entry EXCEPT !.text = r.value[1]]>> \o rest.printed]

-----------------------------------------------------------------------------
(* JSON payloads.  A JSON object is the dict json.loads makes of it, which *)
(* keeps the members in the order of the body: the keys in that order and *)
(* the value of each key.  The values are Texts (names), costs, token      *)
(* counts, booleans or, for "results", a sequence of objects.              *)

Member(key, value) == [key |-> key, value |-> value]

\* the dict of a body whose members, with distinct keys, come in this order
Object(members) ==
    [keys |-> [i \in 1..Len(members) |-> members[i].key],
     values |-> [k \in {members[i].key : i \in 1..Len(members)} |->
                   members[CHOOSE i \in 1..Len(members) : members[i].key = k].value]]

\* dict.get(key, default)
Get(data, key, default) ==
    IF key \in DOMAIN data.values THEN data.values[key] ELSE default

TextKeys == {"litellm_model_name", "litellm_provider", "slug", "name", "provider", "query"}
CostKeys == {"input_cost_per_token", "output_cost_per_token",
             "cache_read_input_token_cost", "cache_creation_input_token_cost"}
TokenKeys == {"max_input_tokens", "max_output_tokens", "max_tokens", "count"}

RECURSIVE Join(_, _)
Join(texts, sep) ==
    IF texts = <<>> THEN <<>>
    ELSE IF Len(texts) = 1 THEN texts[1]
    ELSE texts[1] \o sep \o Join(Tail(texts), sep)

\* json.dumps of a value that is no object: the text of a string between
\* quotes, a number or literal as one token (it holds no bracket)
JsonScalar(key, v) ==
    IF key \in TextKeys THEN <<"\"">> \o v \o <<"\"">>
    ELSE IF v = None THEN <<"null">>
    ELSE IF key \in CostKeys
         THEN <<ToString(v[1].digits) \o "e-" \o ToString(v[1].exp)>>
    ELSE IF key \in TokenKeys THEN <<ToString(v[1])>>
    ELSE IF v[1] THEN <<"true">> ELSE <<"false">>

\* json.dumps of an object without nested objects, member by member in the
\* order of the dict.  White space is left out: it neither starts nor ends
\* a markup tag.
JsonFlat(data) ==
    <<"{">>
    \o Join([i \in 1..Len(data.keys) |->
                <<"\"" \o data.keys[i] \o "\"", ":">>
                \o JsonScalar(data.keys[i], data.values[data.keys[i]])],
            <<",">>)
    \o <<"}">>

\* json.dumps(data, indent=2) of a payload
JsonDumps(data) ==
    LET Value(key, v) ==
            IF key = "results"
            THEN <<"[">> \o Join([i \in 1..Len(v) |-> JsonFlat(v[i])], <<",">>) \o <<"]">>
            ELSE JsonScalar(key, v)
    IN <<"{">>
       \o Join([i \in 1..Len(data.keys) |->
                   <<"\"" \o data.keys[i] \o "\"", ":">>
                   \o Value(data.keys[i], data.values[data.keys[i]])],
               <<",">>)
       \o <<"}">>

\* json.dumps(providers, indent=2) of a list of strings
JsonList(texts) ==
    <<"[">>
    \o Join([i \in 1..Len(texts) |-> <<"\"">> \o texts[i] \o <<"\"">>], <<",">>)
    \o <<"]">>

-----------------------------------------------------------------------------
(* display.py *)

\* Python truthiness of an optional number
Truthy(v) == v # None /\ v[1] # 0
TruthyCost(v) == v # None /\ v[1].digits # 0

\* display_error: display.py 245-251
DisplayError(message) ==
    ConsolePrint(<< PrintMarkup("error",
                            <<"[", "red", "]", "Error:", "[", "/", "red", "]", " ">>
                            \o message) >>)

CostCell(cost) == <<FormatCost(cost), GetCostStyle(cost)>>

\* the pricing table of display_model: display.py 101-125
PricingRows(data) ==
    LET input_cost == Get(data, "input_cost_per_token", None)
        output_cost == Get(data, "output_cost_per_token", None)
        cache_read == Get(data, "cache_read_input_token_cost", None)
        cache_write == Get(data, "cache_creation_input_token_cost", None)
    IN << <<"Input">> \o CostCell(input_cost),
          <<"Output">> \o CostCell(output_cost) >>
       \o (IF TruthyCost(cache_read)
           THEN << <<"Cache read">> \o CostCell(cache_read) >> ELSE <<>>)
       \o (IF TruthyCost(cache_write)
           THEN << <<"Cache write">> \o CostCell(cache_write) >> ELSE <<>>)

\* the context window table of display_model: display.py 127-137
ContextRows(data) ==
    LET Row(label, key) ==
            IF Truthy(Get(data, key, None))
            THEN << <<label, FormatTokens(Get(data, key, None))>> >> ELSE <<>>
    IN Row("Max input", "max_input_tokens")
       \o Row("Max output", "max_output_tokens")
       \o Row("Max total", "max_tokens")

\* capability_fields: display.py 141-151
CapabilityFields ==
    << <<"supports_vision", "Vision">>,
       <<"supports_function_calling", "Functions">>,
       <<"supports_tool_choice", "Tool choice">>,
       <<"supports_prompt_caching", "Caching">>,
       <<"supports_response_schema", "Schema">>,
       <<"supports_system_messages", "System msgs">>,
       <<"supports_audio_input", "Audio in">>,
       <<"supports_audio_output", "Audio out">>,
       <<"supports_pdf_input", "PDF">> >>

\* the capability labels of display_model: display.py 139-155
Capabilities(data) ==
    LET Labels(fields) == [i \in 1..Len(fields) |-> fields[i][2]]
    IN Labels(SelectSeq(CapabilityFields,
                        LAMBDA f : Get(data, f[1], None) = Some(TRUE)))

Bold(text) == <<"[", "bold", "]", text, "[", "/", "bold", "]">>

\* display_model: display.py 82-175
DisplayModel(data, json_output) ==
    LET name == Get(data, "litellm_model_name", Get(data, "slug", <<"Unknown">>))
        provider == Get(data, "litellm_provider", <<"Unknown">>)
        Context(rows) ==
            IF rows # <<>>
            THEN << PrintMarkup("heading", Bold("Context Window")),
                    PrintRenderable(Entry("context_table", <<>>, rows)) >>
            ELSE <<>>
        Ticked(caps) ==
            Join([i \in 1..Len(caps) |->
                    <<"[", "green", "]", "(check)", "[", "/", "green", "]", " ", caps[i]>>],
                 <<" - ">>)
        Capable(caps) ==
            IF caps # <<>>
            THEN << PrintMarkup("heading", Bold("Capabilities")),
                    PrintMarkup("capabilities", Ticked(caps)) >>
            ELSE <<>>
    IN IF json_output THEN ConsolePrint(<< PrintMarkup("json", JsonDumps(data)) >>)
       ELSE ConsolePrint(
              << PrintRenderable(Entry("panel", name \o <<" (">> \o provider \o <<")">>, <<>>)),
                 PrintMarkup("heading", Bold("Pricing")),
                 PrintRenderable(Entry("pricing_table", <<>>, PricingRows(data))) >>
              \o Context(ContextRows(data))
              \o Capable(Capabilities(data)))

\* One row of the search table: display.py 207-216.  The first two cells are
\* strings, which the table renders as markup; the cost cells are Texts.
SearchRow(model) ==
    LET input_cost == Get(model, "input_cost_per_token", None)
        output_cost == Get(model, "output_cost_per_token", None)
    IN [slug |-> Get(model, "slug", Get(model, "name", <<"?">>)),
        provider |-> Get(model, "provider", <<"-">>),
        input |-> CostCell(input_cost),
        output |-> CostCell(output_cost)]

\* console.print(table) of the search table: every string cell is rendered
\* as markup, row by row
RECURSIVE RenderRows(_)
RenderRows(rows) ==
    IF rows = <<>> THEN Return(<<>>)
    ELSE LET slug == RenderMarkup(rows[1].slug)
             provider == RenderMarkup(rows[1].provider)
             rest == RenderRows(Tail(rows))
         IN IF slug.raised # None THEN slug
            ELSE IF provider.raised # None THEN provider
            ELSE IF rest.raised # None THEN rest
            ELSE Return(<< <<slug.value[1], provider.value[1],
                             rows[1].input, rows[1].output>> >> \o rest.value[1])

\* display_search_results: display.py 178-219
DisplaySearchResults(data, json_output) ==
    LET results == Get(data, "results", <<>>)
        count == Get(data, "count", Some(Len(results)))
        query == Get(data, "query", <<>>)
        Table(found, table) ==
            IF found.raised # None THEN found
            ELSE IF table.raised # None
            THEN [raised |-> table.raised, printed |-> found.printed]
            ELSE [raised |-> None,
                  printed |-> found.printed
                              \o <<Entry("search_table", <<>>, table.value[1])>>]
    IN IF json_output THEN ConsolePrint(<< PrintMarkup("json", JsonDumps(data)) >>)
       ELSE IF results = <<>>
       THEN ConsolePrint(
              << PrintMarkup("no_results",
                             <<"[", "yellow", "]", "No models found for '">> \o query
                             \o <<"'", "[", "/", "yellow", "]">>) >>)
       ELSE Table(ConsolePrint(
                    << PrintMarkup("found",
                                   <<"[", "dim", "]", "Found ">> \o IntStr(count[1])
                                   \o <<" model(s) for '">> \o query
                                   \o <<"'", "[", "/", "dim", "]">>) >>),
                  RenderRows([i \in 1..Len(results) |-> SearchRow(results[i])]))

\* display_providers: display.py 222-242
DisplayProviders(providers, json_output) ==
    IF json_output THEN ConsolePrint(<< PrintMarkup("json", JsonList(providers)) >>)
    ELSE ConsolePrint(
           << PrintMarkup("providers_heading",
                          Bold("Providers") \o <<" (">> \o IntStr(Len(providers))
                          \o <<")">>) >>
           \o [i \in 1..Len(providers) |->
                 PrintMarkup("provider", <<"  (bullet) ">> \o providers[i])]
           \o << PrintMarkup("tip",
                             <<"[", "dim", "]",
                               "Tip: Search by provider with 'toktab search provider:NAME'",
                               "[", "/", "dim", "]">>) >>)

-----------------------------------------------------------------------------
(* httpx.get: what the call can do *)

\* a response with a status code and a body: <<data>> when the body is JSON,
\* <<>> when it is not
Reply(status, body) ==
    [kind |-> "response", type |-> "", message |-> <<>>,
     status_code |-> status, body |-> body]

\* an exception raised by the transport
Transport(type, message) ==
    [kind |-> "exception", type |-> type, message |-> message,
     status_code |-> 0, body |-> None]

\* httpx.Response.is_success
IsSuccess(status) == status \div 100 = 2

-----------------------------------------------------------------------------
(* api.py *)

\* get_model's url: api.py 42
\* (GetModelUrlNoSlug is a faulty variant: the slug is left out)
GetModelUrlNoSlug(slug) == <<BASE_URL, "/">>
GetModelUrl(slug) == <<BASE_URL, "/">> \o slug \o <<"/">>

\* the try block of get_model: api.py 43-48
GetModelTry(slug, outcome) ==
    IF outcome.kind = "exception"
    THEN Raise(Exc(outcome.type, outcome.message, 0))
    ELSE IF outcome.status_code = 404
    THEN Raise(Exc("ModelNotFoundError", <<"Model '">> \o slug \o <<"' not found">>, 0))
    ELSE IF ~IsSuccess(outcome.status_code)
    THEN Raise(Exc("HTTPStatusError", <<>>, outcome.status_code))
    ELSE IF outcome.body = None
    THEN Raise(Exc("JSONDecodeError", <<>>, 0))
    ELSE Return(outcome.body[1])

\* the except clauses of get_model, in order: api.py 49-54
\* (GetModelExceptsNetworkFirst is a faulty variant: the general clause first)
GetModelExceptsNetworkFirst == <<"RequestError", "TimeoutException", "HTTPStatusError">>
GetModelExcepts == <<"TimeoutException", "HTTPStatusError", "RequestError">>

APIError(message) == Exc("APIError", message, 0)

\* the body of get_model's except clause: api.py 50, 52, 54
GetModelHandler(clause, e) ==
    IF clause = "TimeoutException"
    THEN APIError(<<"Request timed out. Please try again.">>)
    ELSE IF clause = "HTTPStatusError"
    THEN APIError(<<"API error: ", ToString(e.status_code)>>)
    ELSE APIError(<<"Network error: ">> \o e.message)

\* get_model: api.py 29-54
GetModel(slug, outcome) ==
    LET r == GetModelTry(slug, outcome)
        i == FirstExcept(r.raised[1].type, GetModelExcepts)
    IN IF r.raised = None \/ i = 0 THEN r
       ELSE Raise(GetModelHandler(GetModelExcepts[i], r.raised[1]))

\* search's url and query parameters: api.py 70-71
\* (SearchParamsUnclamped is a faulty variant: the limit as given)
SearchUrl == <<BASE_URL, "/search">>
SearchParamsUnclamped(query, limit) == [q |-> query, limit |-> limit]
SearchParams(query, limit) == [q |-> query, limit |-> Min({limit, MAX_LIMIT})]

\* the try block of search: api.py 72-75
SearchTry(outcome) ==
    IF outcome.kind = "exception"
    THEN Raise(Exc(outcome.type, outcome.message, 0))
    ELSE IF ~IsSuccess(outcome.status_code)
    THEN Raise(Exc("HTTPStatusError", <<>>, outcome.status_code))
    ELSE IF outcome.body = None
    THEN Raise(Exc("JSONDecodeError", <<>>, 0))
    ELSE Return(outcome.body[1])

\* the except clauses of search, in order: api.py 76-83
SearchExcepts == <<"TimeoutException", "HTTPStatusError", "RequestError">>

\* the body of search's except clause: api.py 77, 79-81, 83
SearchHandler(clause, e) ==
    IF clause = "TimeoutException"
    THEN APIError(<<"Request timed out. Please try again.">>)
    ELSE IF clause = "HTTPStatusError"
    THEN IF e.status_code = 400
         THEN APIError(<<"Invalid search query">>)
         ELSE APIError(<<"API error: ", ToString(e.status_code)>>)
    ELSE APIError(<<"Network error: ">> \o e.message)

\* search: api.py 57-83, after the request
Search(outcome) ==
    LET r == SearchTry(outcome)
        i == FirstExcept(r.raised[1].type, SearchExcepts)
    IN IF r.raised = None \/ i = 0 THEN r
       ELSE Raise(SearchHandler(SearchExcepts[i], r.raised[1]))

-----------------------------------------------------------------------------
(* The command lines and the server's answers the model explores *)

\* a command line: the group's options (given before the command name), the
\* positional arguments from the command name on, and the options given
\* after the command name
CommandLine(help, json_output, version, args, sub_help, limit, sub_json) ==
    [help |-> help, json_output |-> json_output, version |-> version,
     args |-> args, sub_help |-> sub_help, limit |-> limit, sub_json |-> sub_json]

Slugs == TextsUpTo(MaxTextLen)
Queries == {<<"a">>, <<"[", "/", "]">>}
Limits == (0 - LimitSlack)..(MAX_LIMIT + LimitSlack)

\* what follows a slug on the command lines explored: nothing, a further
\* argument, --help, --json, --limit 5, and --help with one of the others
AfterSlug ==
    {[extra |-> e, sub_help |-> h, limit |-> None, sub_json |-> FALSE] :
        e \in {<<>>, <<<<"a">>>>}, h \in BOOLEAN}
    \cup {[extra |-> <<>>, sub_help |-> h, limit |-> None, sub_json |-> TRUE] :
             h \in BOOLEAN}
    \cup {[extra |-> <<>>, sub_help |-> h, limit |-> Some(5), sub_json |-> FALSE] :
             h \in BOOLEAN}

Argvs ==
    {CommandLine(h, j, v, <<>>, FALSE, None, FALSE) :
        h \in BOOLEAN, j \in BOOLEAN, v \in BOOLEAN}
    \cup {CommandLine(h, j, v, <<slug>> \o after.extra,
                       after.sub_help, after.limit, after.sub_json) :
             h \in BOOLEAN, j \in BOOLEAN, v \in BOOLEAN, slug \in Slugs,
             after \in AfterSlug}
    \cup {CommandLine(h, j, v, <<<<"search">>>> \o query, sh, limit, sj) :
             h \in BOOLEAN, j \in BOOLEAN, v \in BOOLEAN,
             query \in {<<>>} \cup {<<q>> : q \in Queries},
             sh \in BOOLEAN,
             limit \in {None} \cup {Some(n) : n \in Limits},
             sj \in BOOLEAN}

\* texts the server may put in a payload
PayloadTexts ==
    {<<"a">>, <<"[", "a", "]">>, <<"[", "/", "a", "]">>,
     <<"[", "a", "]", "1", "[", "/", "a", "]">>, <<"[", "1", "]">>}

BaseModel ==
    << Member("litellm_model_name", <<"a">>),
       Member("litellm_provider", <<"1">>),
       Member("input_cost_per_token", Some(Dec(25, 7))),
       Member("output_cost_per_token", Some(Dec(1, 5))) >>

PayloadCosts == {None, Some(Dec(0, 0)), Some(Dec(3, 7))}
PayloadTokens == {None, Some(0), Some(1001), Some(128000)}

\* bodies of the model endpoint, with their members in either order
ModelPayloads ==
    {Object(<<>>), Object(<<Member("slug", <<"a">>)>>)}
    \cup {Object(<<Member("litellm_model_name", n), Member("litellm_provider", p)>>
                 \o SubSeq(BaseModel, 3, 4)) :
             n \in PayloadTexts, p \in {<<"1">>, <<"[", "/", "a", "]">>}}
    \cup {Object(Reverse(<<Member("litellm_model_name", n), Member("litellm_provider", p)>>
                         \o SubSeq(BaseModel, 3, 4))) :
             n \in PayloadTexts, p \in {<<"1">>, <<"[", "a", "]">>}}
    \cup {Object(BaseModel \o <<Member("cache_read_input_token_cost", r),
                         Member("cache_creation_input_token_cost", w)>>) :
             r \in PayloadCosts, w \in PayloadCosts}
    \cup {Object(BaseModel \o <<Member("max_input_tokens", i),
                         Member("max_output_tokens", o)>>) :
             i \in PayloadTokens, o \in PayloadTokens}
    \cup {Object(BaseModel \o <<Member("supports_vision", Some(v)),
                         Member("supports_prompt_caching", Some(c))>>) :
             v \in BOOLEAN, c \in BOOLEAN}
    \cup {Object(BaseModel \o <<Member(CapabilityFields[i][1], Some(TRUE))>>) :
             i \in 1..Len(CapabilityFields)}
    \cup {Object(BaseModel \o <<Member("supports_pdf_input", Some(TRUE)),
                         Member("supports_audio_input", None),
                         Member("supports_function_calling", Some(TRUE)),
                         Member("supports_vision", Some(TRUE))>>)}

\* records of the search endpoint: with a slug, with a name only, and with
\* the name before the slug
SearchItems ==
    {Object(<<Member("slug", t), Member("provider", <<"1">>),
       Member("input_cost_per_token", Some(Dec(25, 7))),
       Member("output_cost_per_token", None)>>) : t \in PayloadTexts}
    \cup {Object(<<Member("name", <<"a">>), Member("provider", t)>>) : t \in PayloadTexts}
    \cup {Object(<<Member("name", n), Member("slug", t), Member("provider", <<"1">>),
            Member("input_cost_per_token", Some(Dec(15, 6))),
            Member("output_cost_per_token", Some(Dec(75, 6)))>>) :
             n \in {<<"a">>, <<"[", "a", "]">>, <<"[", "/", "a", "]">>},
             t \in {<<"a">>, <<"[", "a", "]">>, <<"[", "/", "a", "]">>}}

\* bodies of the search endpoint, with the results first or the query first
SearchPayloads ==
    {Object(<<Member("results", <<>>), Member("query", q), Member("count", Some(0))>>) :
        q \in PayloadTexts}
    \cup {Object(<<Member("results", <<m>>), Member("query", q), Member("count", Some(1))>>) :
             q \in PayloadTexts, m \in SearchItems}
    \cup {Object(<<Member("query", q), Member("results", <<m>>), Member("count", Some(1))>>) :
             q \in {<<"[", "a", "]">>, <<"[", "/", "a", "]">>}, m \in SearchItems}
    \cup {Object(<<Member("results", <<m, m>>), Member("query", <<"a">>)>>) : m \in SearchItems}

ErrorStatuses == {400, 404, 500}

TransportFailures ==
    {Transport("ReadTimeout", <<"timed out">>),
     Transport("ConnectTimeout", <<"timed out">>),
     Transport("ConnectError", <<"[", "1", "]", "a">>),
     Transport("ReadError", <<"a">>),
     Transport("TooManyRedirects", <<"a">>)}

Outcomes(payloads) ==
    {Reply(200, Some(p)) : p \in payloads}
    \cup {Reply(200, None)}
    \cup {Reply(status, None) : status \in ErrorStatuses}
    \cup TransportFailures

-----------------------------------------------------------------------------
(* cli.py: one invocation of the program *)

IsSearch(line) == line.args # <<>> /\ line.args[1] = <<"search">>
IsLookup(line) == line.args # <<>> /\ line.args[1] # <<"search">>

\* click parses what follows the command name.  The lookup command (cli.py
\* 43) declares no parameter, search (cli.py 69-72) one QUERY argument,
\* --limit and --json; both have click's --help.  An option the command does
\* not declare ends the parsing with a usage error; otherwise --help is
\* handled before the arguments are counted.
NoSuchOption(line) == IsLookup(line) /\ (line.limit # None \/ line.sub_json)
HelpShown(line) == ~NoSuchOption(line) /\ line.sub_help
Accepted(line) ==
    /\ ~NoSuchOption(line)
    /\ ~line.sub_help
    /\ Len(line.args) = IF IsSearch(line) THEN 2 ELSE 1

Traceback(e) == Entry("traceback", <<e.type>>, <<>>)

\* the process ends: exit code and what was written
Exit(code, out, err) ==
    /\ pc' = "exited"
    /\ exit_code' = Some(code)
    /\ stdout' = stdout \o out
    /\ stderr' = stderr \o err

\* cli(): click parses the group's options before it calls the group
\* callback; --help prints the group's help and ends the process there
Main ==
    /\ pc = "main"
    /\ IF argv.help
       THEN Exit(0, <<Entry("help", <<>>, <<>>)>>, <<>>)
       ELSE /\ pc' = "cli"
            /\ UNCHANGED <<stdout, stderr, exit_code>>
    /\ UNCHANGED <<argv, requests, response, client_result, fn_arg, fn_ret, fn_raised>>

\* cli, the group callback: cli.py 46-66
\* (CliIgnoringVersion is a faulty variant: --version has no effect)
CliIgnoringVersion ==
    /\ pc = "cli"
    /\ IF argv.args = <<>>
       THEN Exit(0, <<Entry("help", <<>>, <<>>)>>, <<>>)
       ELSE /\ pc' = "subcommand"
            /\ UNCHANGED <<stdout, stderr, exit_code>>
    /\ UNCHANGED <<argv, requests, response, client_result, fn_arg, fn_ret, fn_raised>>
Cli ==
    /\ pc = "cli"
    /\ IF argv.version
       THEN Exit(0, <<Entry("version", <<"toktab ", "__version__">>, <<>>)>>, <<>>)
       ELSE IF argv.args = <<>>
       THEN Exit(0, <<Entry("help", <<>>, <<>>)>>, <<>>)
       ELSE /\ pc' = "subcommand"
            /\ UNCHANGED <<stdout, stderr, exit_code>>
    /\ UNCHANGED <<argv, requests, response, client_result, fn_arg, fn_ret, fn_raised>>

\* --help after the command name: click prints the command's help
CommandHelp ==
    /\ pc = "subcommand"
    /\ HelpShown(argv)
    /\ Exit(0, <<Entry("command_help", argv.args[1], <<>>)>>, <<>>)
    /\ UNCHANGED <<argv, requests, response, client_result, fn_arg, fn_ret, fn_raised>>

\* click rejects the subcommand's arguments: usage on stderr, exit code 2
UsageError ==
    /\ pc = "subcommand"
    /\ ~HelpShown(argv)
    /\ ~Accepted(argv)
    /\ Exit(2, <<>>, <<Entry("usage", <<>>, <<>>)>>)
    /\ UNCHANGED <<argv, requests, response, client_result, fn_arg, fn_ret, fn_raised>>

\* httpx.get is called
\* (GetThenRetry is a faulty variant: the request is issued twice)
GetThenRetry(url, params) ==
    requests' = requests \o <<[url |-> url, params |-> params],
                               [url |-> url, params |-> params]>>
HttpxGet(url, params) ==
    requests' = Append(requests, [url |-> url, params |-> params])

\* model_lookup_command up to the request of get_model: cli.py 30-35, api.py 42-44
ModelLookupCommand ==
    /\ pc = "subcommand"
    /\ IsLookup(argv)
    /\ Accepted(argv)
    /\ HttpxGet(GetModelUrl(argv.args[1]), None)
    /\ pc' = "get_model"
    /\ UNCHANGED <<argv, response, client_result, stdout, stderr, exit_code,
                   fn_arg, fn_ret, fn_raised>>

\* the json_output a command passes to its display function: the group's
\* flag for the lookup (cli.py 32), search's own flag for search (cli.py 72)
LookupJson(line) == line.json_output
SearchJson(line) == line.sub_json

\* an except clause of the command catches what the client raised
Caught(r, excepts) == FirstExcept(r.raised[1].type, excepts) # 0

\* what passes through a command without being displayed
Propagates(r) == [raised |-> r.raised, printed |-> <<>>]

\* how a command ends: r is what the client returned or raised, shown what
\* the display function the command then called printed or raised.  An
\* exception that leaves the command ends the process with a traceback and
\* exit code 1; exit(1) follows display_error (cli.py 39, 41, 91).
Finish(r, shown) ==
    IF shown.raised # None
    THEN Exit(1, shown.printed, <<Traceback(shown.raised[1])>>)
    ELSE Exit(IF r.raised = None THEN 0 ELSE 1, shown.printed, <<>>)

ModelLookupExcepts == <<"ModelNotFoundError", "APIError">>

\* the rest of get_model and of model_lookup_command: api.py 44-54, cli.py 35-41
ModelLookupReturn ==
    /\ pc = "get_model"
    /\ \E outcome \in Outcomes(ModelPayloads) :
         \E r \in {GetModel(argv.args[1], outcome)} :
           \E shown \in {IF r.raised = None
                         THEN DisplayModel(r.value[1], LookupJson(argv))
                         ELSE IF Caught(r, ModelLookupExcepts)
                         THEN DisplayError(r.raised[1].message)
                         ELSE Propagates(r)} :
             /\ response' = Some(outcome)
             /\ client_result' = Some(r)
             /\ Finish(r, shown)
    /\ UNCHANGED <<argv, requests, fn_arg, fn_ret, fn_raised>>

\* the value of --limit: cli.py 71
Limit(line) == IF line.limit = None THEN DEFAULT_LIMIT ELSE line.limit[1]

\* search (the command) up to the request of search (the client):
\* cli.py 69-87, api.py 70-72
SearchCommand ==
    /\ pc = "subcommand"
    /\ IsSearch(argv)
    /\ Accepted(argv)
    /\ HttpxGet(SearchUrl, Some(SearchParams(argv.args[2], Limit(argv))))
    /\ pc' = "search"
    /\ UNCHANGED <<argv, response, client_result, stdout, stderr, exit_code,
                   fn_arg, fn_ret, fn_raised>>

SearchCommandExcepts == <<"APIError">>

\* the rest of the client's search and of the command: api.py 72-83, cli.py 87-91
SearchReturn ==
    /\ pc = "search"
    /\ \E outcome \in Outcomes(SearchPayloads) :
         \E r \in {Search(outcome)} :
           \E shown \in {IF r.raised = None
                         THEN DisplaySearchResults(r.value[1], SearchJson(argv))
                         ELSE IF Caught(r, SearchCommandExcepts)
                         THEN DisplayError(r.raised[1].message)
                         ELSE Propagates(r)} :
             /\ response' = Some(outcome)
             /\ client_result' = Some(r)
             /\ Finish(r, shown)
    /\ UNCHANGED <<argv, requests, fn_arg, fn_ret, fn_raised>>

Init ==
    /\ argv \in Argvs
    /\ pc = "main"
    /\ requests = <<>>
    /\ response = None
    /\ client_result = None
    /\ stdout = <<>>
    /\ stderr = <<>>
    /\ exit_code = None
    /\ fn_arg = None
    /\ fn_ret = None
    /\ fn_raised = None

Next ==
    \/ Main
    \/ Cli
    \/ CommandHelp
    \/ UsageError
    \/ ModelLookupCommand
    \/ ModelLookupReturn
    \/ SearchCommand
    \/ SearchReturn

Spec == Init /\ [][Next]_vars

-----------------------------------------------------------------------------
(* The functions of display.py that cli.py calls through others or not at  *)
(* all, called on their own                                                *)

TokenInputs ==
    {None}
    \cup {Some(n) : n \in 0..MaxTokens}
    \cup {Some(1000 * n) : n \in 0..MaxTokens}
    \cup {Some(1000 * n + 1) : n \in 0..MaxTokens}

CostInputs ==
    {None} \cup {Some(Dec(d, e)) : d \in 0..MaxCostDigits, e \in MinCostExp..MaxCostExp}

ProviderInputs ==
    {[providers |-> ps, json_output |-> j] :
        ps \in UNION {[1..k -> PayloadTexts] : k \in 0..2}, j \in BOOLEAN}

InitFormat ==
    /\ argv = CommandLine(FALSE, FALSE, FALSE, <<>>, FALSE, None, FALSE)
    /\ requests = <<>>
    /\ response = None
    /\ client_result = None
    /\ stdout = <<>>
    /\ stderr = <<>>
    /\ exit_code = None
    /\ fn_ret = None
    /\ fn_raised = None
    /\ \/ pc = "format_tokens" /\ fn_arg \in TokenInputs
       \/ pc = "format_cost" /\ fn_arg \in CostInputs
       \/ pc = "display_providers" /\ fn_arg \in ProviderInputs

CallFormatTokens ==
    /\ pc = "format_tokens"
    /\ fn_ret' = Some(FormatTokens(fn_arg))
    /\ pc' = "formatted_tokens"
    /\ UNCHANGED <<argv, requests, response, client_result, stdout, stderr,
                   exit_code, fn_arg, fn_raised>>

CallFormatCost ==
    /\ pc = "format_cost"
    /\ fn_ret' = Some(FormatCost(fn_arg))
    /\ pc' = "formatted_cost"
    /\ UNCHANGED <<argv, requests, response, client_result, stdout, stderr,
                   exit_code, fn_arg, fn_raised>>

\* display_providers called on its own: what it prints goes to standard
\* output; it returns None, or raises and leaves what it printed before
CallDisplayProviders ==
    /\ pc = "display_providers"
    /\ \E shown \in {DisplayProviders(fn_arg.providers, fn_arg.json_output)} :
         /\ stdout' = stdout \o shown.printed
         /\ fn_raised' = shown.raised
         /\ fn_ret' = IF shown.raised = None THEN Some(None) ELSE None
         /\ pc' = IF shown.raised = None THEN "displayed_providers"
                  ELSE "display_providers_raised"
    /\ UNCHANGED <<argv, requests, response, client_result, stderr, exit_code, fn_arg>>

NextFormat == CallFormatTokens \/ CallFormatCost \/ CallDisplayProviders

SpecFormat == InitFormat /\ [][NextFormat]_vars

-----------------------------------------------------------------------------
(* Properties *)

ClientReturned == client_result # None /\ client_result[1].raised = None
ClientRaised(cls) ==
    /\ client_result # None
    /\ client_result[1].raised # None
    /\ IsSubclass(client_result[1].raised[1].type, cls)
Payload == client_result[1].value[1]
Message == client_result[1].raised[1].message

Printed(kind) == \E i \in 1..Len(stdout) : stdout[i].kind = kind
ResultKinds ==
    {"json", "panel", "heading", "pricing_table", "context_table", "capabilities",
     "found", "no_results", "search_table"}

EndsWith(s, tail) ==
    Len(s) >= Len(tail) /\ SubSeq(s, Len(s) - Len(tail) + 1, Len(s)) = tail

\* C1: a lookup or search whose client call succeeded exits with code 0; one
\* whose client call raised ModelNotFoundError or APIError exits with code 1,
\* has printed an error message and has rendered no model or search output.
C1_ExitCodes ==
    pc = "exited" /\ client_result # None =>
        /\ ClientReturned => exit_code = Some(0)
        /\ ClientRaised("ModelNotFoundError") \/ ClientRaised("APIError") =>
             /\ exit_code = Some(1)
             /\ Printed("error")
             /\ \A kind \in ResultKinds : ~Printed(kind)

\* C2: get_model raises ModelNotFoundError exactly when the response status is
\* 404 and APIError for every other error status and every transport failure;
\* after ModelNotFoundError the CLI has printed the 'not found' message and
\* exits with code 1.
C2_NotFound ==
    pc = "exited" /\ IsLookup(argv) /\ client_result # None =>
        /\ ClientRaised("ModelNotFoundError")
             <=> (response[1].kind = "response" /\ response[1].status_code = 404)
        /\ \/ response[1].kind = "exception"
           \/ ~IsSuccess(response[1].status_code) /\ response[1].status_code # 404
           => ClientRaised("APIError")
        /\ ClientRaised("ModelNotFoundError") =>
             /\ exit_code = Some(1)
             /\ \E i \in 1..Len(stdout) :
                  /\ stdout[i].kind = "error"
                  /\ EndsWith(stdout[i].text, <<"' not found">>)

\* C3: in get_model and in search, a timeout of the request raises APIError
\* with the message 'Request timed out. Please try again.' and not a
\* 'Network error: ...' message; every other transport failure raises APIError
\* with a message that starts with 'Network error: '.
C3_Timeout ==
    client_result # None /\ response[1].kind = "exception" =>
        /\ ClientRaised("APIError")
        /\ IF IsSubclass(response[1].type, "TimeoutException")
           THEN Message = <<"Request timed out. Please try again.">>
           ELSE Message = <<"Network error: ">> \o response[1].message

C3_Witness ==
    /\ pc = "exited"
    /\ IsLookup(argv)
    /\ response # None
    /\ response[1].type = "ConnectTimeout"
    /\ ClientRaised("APIError")
    /\ Printed("error")

\* C4: the limit parameter of a search request never exceeds 50 and equals the
\* requested limit whenever that is at most 50.
C4_LimitClamped ==
    \A i \in 1..Len(requests) :
        requests[i].params # None =>
            /\ requests[i].params[1].limit <= 50
            /\ Limit(argv) <= 50 => requests[i].params[1].limit = Limit(argv)

C4_Witness ==
    /\ requests # <<>>
    /\ requests[1].params # None
    /\ Limit(argv) > 50
    /\ requests[1].params[1].limit = 50

\* C5: a lookup or search issues exactly one request: one is out from the
\* moment the client is called, the answer to it ends the invocation
\* whatever it is, and an invocation that has ended takes no further step.
C5_SingleRequest ==
    /\ [](/\ Len(requests) <= 1
          /\ pc \in {"get_model", "search"} => Len(requests) = 1
          /\ response # None => pc = "exited" /\ Len(requests) = 1)
    /\ [][pc # "exited"]_vars

C5_Witness ==
    /\ pc = "exited"
    /\ Len(requests) = 1
    /\ response # None
    /\ response[1].kind = "response"
    /\ response[1].status_code = 500
    /\ exit_code = Some(1)

\* the --json flag the command reads
JsonFlag(line) == IF IsSearch(line) THEN SearchJson(line) ELSE LookupJson(line)

\* C6: after a successful client call with the JSON flag, the output is
\* exactly the JSON serialization of the payload and nothing else; without
\* the flag no JSON is printed and the formatted result is.
C6_JsonExact ==
    pc = "exited" /\ ClientReturned =>
        IF JsonFlag(argv)
        THEN stdout = <<Entry("json", JsonDumps(Payload), <<>>)>>
        ELSE /\ ~Printed("json")
             /\ Printed("pricing_table") \/ Printed("search_table") \/ Printed("no_results")

\* C7 as stated: with no arguments or with --version no request is ever
\* issued, and the program exits with code 0 having printed the version
\* string (--version) or the usage help (no arguments).
C7_NoRequest ==
    argv.version \/ argv.args = <<>> =>
        /\ requests = <<>>
        /\ pc = "exited" =>
             /\ exit_code = Some(0)
             /\ stdout = IF argv.version
                         THEN <<Entry("version", <<"toktab ", "__version__">>, <<>>)>>
                         ELSE <<Entry("help", <<>>, <<>>)>>

\* C7: with the group's --help, with --version or with no arguments no
\* request is ever issued and the program exits with code 0; it has printed
\* the version string when --version is given without --help, and the usage
\* help otherwise (--help comes before --version, whatever their order).
C7_NoRequestHelpFirst ==
    argv.help \/ argv.version \/ argv.args = <<>> =>
        /\ requests = <<>>
        /\ pc = "exited" =>
             /\ exit_code = Some(0)
             /\ stderr = <<>>
             /\ stdout = IF argv.version /\ ~argv.help
                         THEN <<Entry("version", <<"toktab ", "__version__">>, <<>>)>>
                         ELSE <<Entry("help", <<>>, <<>>)>>

C7_Witness ==
    /\ pc = "exited"
    /\ argv.version
    /\ ~argv.help
    /\ argv.args # <<>>
    /\ requests = <<>>
    /\ Printed("version")
    /\ exit_code = Some(0)

\* C8: format_tokens returns '-' for None, the plain number below 1,000, an
\* integer and 'K' or 'M' for exact multiples of 1,000 (below 1,000,000) or
\* of 1,000,000, and never a text that ends in '.0K' or '.0M'.
C8_FormatTokens ==
    pc = "formatted_tokens" =>
        /\ fn_arg = None => fn_ret[1] = <<"-">>
        /\ fn_arg # None /\ fn_arg[1] < 1000 => fn_ret[1] = IntStr(fn_arg[1])
        /\ fn_arg # None /\ fn_arg[1] >= 1000 /\ fn_arg[1] < 1000000
             /\ fn_arg[1] % 1000 = 0
             => fn_ret[1] = IntStr(fn_arg[1] \div 1000) \o <<"K">>
        /\ fn_arg # None /\ fn_arg[1] >= 1000000 /\ fn_arg[1] % 1000000 = 0
             => fn_ret[1] = IntStr(fn_arg[1] \div 1000000) \o <<"M">>
        /\ ~EndsWith(fn_ret[1], <<".", "0", "K">>)
        /\ ~EndsWith(fn_ret[1], <<".", "0", "M">>)

\* The whole cents nearest to the price per million tokens of the cost
\* digits * 10^(-exp), which is digits * 10^(8-exp) cents: both neighbours
\* when it lies exactly between two
NearestCents(digits, exp) ==
    IF exp <= 8 THEN {digits * 10^(8 - exp)}
    ELSE {c \in {digits \div 10^(exp - 8), digits \div 10^(exp - 8) + 1} :
            2 * (c * 10^(exp - 8) - digits) <= 10^(exp - 8)
            /\ 2 * (digits - c * 10^(exp - 8)) <= 10^(exp - 8)}

\* the price per million tokens is at least 10^(-places) dollars
AtLeast(digits, exp, places) ==
    exp <= 6 + places \/ digits >= 10^(exp - 6 - places)

\* C9: format_cost returns '-' exactly for None and 'Free' exactly for zero;
\* a price per million of at least $1 is '$' and the price to the nearest
\* cent with two decimals, one of at least $0.01 and below $1 the same with
\* trailing zeros (and then a trailing point) removed.
C9_FormatCost ==
    pc = "formatted_cost" =>
        /\ fn_ret[1] = <<"-">> <=> fn_arg = None
        /\ fn_ret[1] = <<"Free">> <=> (fn_arg # None /\ fn_arg[1].digits = 0)
        /\ fn_arg # None /\ fn_arg[1].digits > 0 =>
             /\ fn_ret[1][1] = "$"
             /\ AtLeast(fn_arg[1].digits, fn_arg[1].exp, 0) =>
                  \E c \in NearestCents(fn_arg[1].digits, fn_arg[1].exp) :
                      fn_ret[1] = <<"$">> \o PointBefore(NatDigits(c), 2)
             /\ AtLeast(fn_arg[1].digits, fn_arg[1].exp, 2)
                  /\ ~AtLeast(fn_arg[1].digits, fn_arg[1].exp, 0) =>
                  \E c \in NearestCents(fn_arg[1].digits, fn_arg[1].exp) :
                      fn_ret[1] = <<"$">>
                                  \o RStrip(RStrip(PointBefore(NatDigits(c), 2), "0"), ".")

C9_Witness ==
    /\ pc = "formatted_cost"
    /\ fn_arg = Some(Dec(75, 9))
    /\ fn_ret = Some(<<"$", "0", ".", "0", "7">>)

HasRow(rows, label, cost) ==
    \E k \in 1..Len(rows) : rows[k][1] = label /\ rows[k][2] = FormatCost(cost)

\* C11: in table mode display_model shows the Input and the Output row, and
\* a 'Cache read' / 'Cache write' row whenever the record holds that cache
\* cost (it is not None), each cost formatted by format_cost.
C11_CacheRows ==
    pc = "exited" /\ IsLookup(argv) /\ ClientReturned /\ ~LookupJson(argv) =>
        \E i \in 1..Len(stdout) :
            /\ stdout[i].kind = "pricing_table"
            /\ HasRow(stdout[i].rows, "Input",
                      Get(Payload, "input_cost_per_token", None))
            /\ HasRow(stdout[i].rows, "Output",
                      Get(Payload, "output_cost_per_token", None))
            /\ Get(Payload, "cache_read_input_token_cost", None) # None =>
                 HasRow(stdout[i].rows, "Cache read",
                        Get(Payload, "cache_read_input_token_cost", None))
            /\ Get(Payload, "cache_creation_input_token_cost", None) # None =>
                 HasRow(stdout[i].rows, "Cache write",
                        Get(Payload, "cache_creation_input_token_cost", None))

\* C11 read with Python's truth test of display.py 117 and 121: the cache
\* rows are shown for the cache costs that are neither None nor zero, and
\* for no others.
C11_NonZeroCacheRows ==
    pc = "exited" /\ IsLookup(argv) /\ ClientReturned /\ ~LookupJson(argv) =>
        \E i \in 1..Len(stdout) :
            /\ stdout[i].kind = "pricing_table"
            /\ HasRow(stdout[i].rows, "Input",
                      Get(Payload, "input_cost_per_token", None))
            /\ HasRow(stdout[i].rows, "Output",
                      Get(Payload, "output_cost_per_token", None))
            /\ TruthyCost(Get(Payload, "cache_read_input_token_cost", None))
                 <=> HasRow(stdout[i].rows, "Cache read",
                            Get(Payload, "cache_read_input_token_cost", None))
            /\ TruthyCost(Get(Payload, "cache_creation_input_token_cost", None))
                 <=> HasRow(stdout[i].rows, "Cache write",
                            Get(Payload, "cache_creation_input_token_cost", None))

\* C12: search renders raw JSON exactly when its own --json flag is set (the
\* group's flag has no effect on it), and the model lookup exactly when the
\* group's --json flag is set.
C12_JsonScope ==
    pc = "exited" /\ ClientReturned =>
        /\ IsSearch(argv) => (Printed("json") <=> argv.sub_json)
        /\ IsLookup(argv) => (Printed("json") <=> argv.json_output)

\* C12, the choice of the branch alone: raw JSON is printed only with the
\* command's own flag; with that flag nothing but raw JSON is printed, and
\* it is printed whenever the command ends with exit code 0.
C12_BranchByOwnFlag ==
    pc = "exited" /\ ClientReturned =>
        /\ Printed("json") => IF IsSearch(argv) THEN argv.sub_json ELSE argv.json_output
        /\ (IF IsSearch(argv) THEN argv.sub_json ELSE argv.json_output) =>
             /\ \A kind \in ResultKinds \ {"json"} : ~Printed(kind)
             /\ exit_code = Some(0) => Printed("json")
        /\ ~(IF IsSearch(argv) THEN argv.sub_json ELSE argv.json_output)
             /\ exit_code = Some(0) =>
                  \E kind \in ResultKinds \ {"json"} : Printed(kind)

====
